---- MODULE Spec2Model ----
(***************************************************************************)
(* A model of solutions/sentinel1_image.py: a straight-line script that    *)
(* loads an EOPatch, constructs a ReactivTask, executes it on the patch    *)
(* and plots one layer of the result.                                      *)
(*                                                                         *)
(* The script's own part (statement order, name binding, the absence of    *)
(* any try/except, the keys it names) is taken from the source.  The four  *)
(* callees (EOPatch.load, ReactivTask, execute, plot_results) are not      *)
(* defined in the source file; their contracts follow spec.md sections 2,  *)
(* 3, 6, 7 and the glossary, and every call is split into a step that      *)
(* starts it and a step in which it returns or raises.  The names          *)
(* EOPatch, ReactivTask, FeatureType and plot_results are taken to be      *)
(* bound by the enclosing namespace.                                       *)
(***************************************************************************)
EXTENDS Integers, Sequences, FiniteSets, TLC

VARIABLES
    disk,      \* path -> what is stored there
    heap,      \* object id -> layers of an in-memory container
    eopatch,   \* the name eopatch: <<>> unbound, <<id>> bound
    reactiv,   \* the name reactiv: <<>> unbound, <<task>> bound
    pc,        \* index into Script of the current statement
    status,    \* "running", "done" or "failed"
    err,       \* the exception that ended the run: <<>> or <<e>>
    active,    \* the external calls in progress
    ncalls,    \* call -> number of times it was started
    nrets,     \* call -> number of times it returned normally
    raised,    \* history: <<>> or <<[call, error]>> of the first exception
    reads,     \* history: keys the task read during execute
    writes,    \* history: keys the task wrote during execute
    plotArg,   \* history: <<>> or <<layer>> handed to plot_results
    loaded,    \* history: <<>> or <<layers>> as returned by EOPatch.load
    produced,  \* history: <<>> or <<[obj, layer]>> of execute's result
    disk0      \* history: disk as it was before the run

vars == <<disk, heap, eopatch, reactiv, pc, status, err, active, ncalls,
          nrets, raised, reads, writes, plotArg, loaded, produced, disk0>>

-----------------------------------------------------------------------------
(* Bounds *)

\* Distinct layer contents a key may map to.
NumLayers == 2

\* Cap on the per-call counters.
MaxCalls == 2

-----------------------------------------------------------------------------
(* Data model: a container maps (category, name) keys to layers *)

SamplePath == "../data/sentinel1_sample"

OutKey == <<"DATA_TIMELESS", "speckle_variability">>
PlotKey == <<"DATA_TIMELESS", "speckle_variability">>
DataKey == <<"DATA", "IW_VV">>
MaskKey == <<"MASK", "IS_DATA">>
\* A key the script never names, which a stored sample may also hold.
OtherKey == <<"DATA", "IW_VH">>

Keys == {OutKey, DataKey, MaskKey, OtherKey}
Layers == 1..NumLayers
Containers == UNION {[S -> Layers] : S \in SUBSET Keys}
NoLayers == [k \in {} |-> 1]

\* What a path may hold before the run: nothing, something that is not a
\* container, or a container.
Stored ==
    {[state |-> "missing", layers |-> NoLayers],
     [state |-> "malformed", layers |-> NoLayers]}
    \cup {[state |-> "ok", layers |-> c] : c \in Containers}

Put(c, k, v) == [x \in (DOMAIN c) \cup {k} |-> IF x = k THEN v ELSE c[x]]

\* A load succeeds only on a path that holds a container.
Loadable(s) == s.state = "ok"

\* A task reads its named input layers and writes its named output layer.
TaskReads(task) == {task.data, task.mask}
TaskWrites(task) == {task.output}
TaskOutput(task, c, v) == Put(c, task.output, v)

-----------------------------------------------------------------------------
(* The script *)

Calls == {"load", "construct", "execute", "plot"}

\* The statements in a different order (the task built before the load).
ScriptReordered == <<"construct", "load", "execute", "plot">>

\* The statements of the file, top to bottom.
Script == <<"load", "construct", "execute", "plot">>

\* The task reading another data_feature than (DATA, 'IW_VV').
TaskArgsOtherInput == [output |-> OutKey, data |-> OtherKey, mask |-> MaskKey]

\* The task writing under another key than the one plotted.
TaskArgsOtherOutput == [output |-> OtherKey, data |-> DataKey, mask |-> MaskKey]

\* The features handed to the ReactivTask constructor.
TaskArgs == [output |-> OutKey, data |-> DataKey, mask |-> MaskKey]

\* The statement after statement i, once it has completed normally.
Advance(i) ==
    [pc |-> i + 1,
     status |-> IF i + 1 > Len(Script) THEN "done" ELSE "running",
     err |-> <<>>]

\* An except clause that drops the exception and goes on.
Swallow(i, e) == Advance(i)

\* An except clause that runs the failed statement again.
Retry(i, e) == [pc |-> i, status |-> "running", err |-> <<>>]

\* An exception raised in statement i: no statement is inside a try, so it
\* leaves the module and ends the run.
Propagate(i, e) == [pc |-> i, status |-> "failed", err |-> <<e>>]

\* The result of execute dropped: the name keeps its old binding.
NoRebind(old, ret) == old

\* eopatch = reactiv.execute(eopatch): the name is bound to the result.
Rebind(old, ret) == <<ret>>

\* The container saved back to the sample path after execute.
SavedAfterExecute(call, d, c) ==
    IF call = "execute"
    THEN [d EXCEPT ![SamplePath] = [state |-> "ok", layers |-> c]]
    ELSE d

\* What is stored once `call` has returned with the container holding
\* layers c: no statement saves, and no callee writes to the path.
Persist(call, d, c) == d

-----------------------------------------------------------------------------
(* Initial state *)

Init ==
    /\ disk \in [{SamplePath} -> Stored]
    /\ disk0 = disk
    /\ heap = <<>>
    /\ eopatch = <<>>
    /\ reactiv = <<>>
    /\ pc = 1
    /\ status = "running"
    /\ err = <<>>
    /\ active = {}
    /\ ncalls = [c \in Calls |-> 0]
    /\ nrets = [c \in Calls |-> 0]
    /\ raised = <<>>
    /\ reads = {}
    /\ writes = {}
    /\ plotArg = <<>>
    /\ loaded = <<>>
    /\ produced = <<>>

-----------------------------------------------------------------------------
(* Interpreter steps shared by the statements *)

\* The statement the interpreter is at.
Cur == IF status = "running" /\ pc <= Len(Script) THEN Script[pc] ELSE "none"

\* The interpreter may start call c: it is at c's statement and inside no
\* call (one thread, synchronous calls).
CanStart(c) == Cur = c /\ active = {} /\ ncalls[c] < MaxCalls

Goto(r) == pc' = r.pc /\ status' = r.status /\ err' = r.err

Start(c) ==
    /\ active' = active \cup {c}
    /\ ncalls' = [ncalls EXCEPT ![c] = @ + 1]
    /\ UNCHANGED <<pc, status, err, nrets, raised>>

Finish(c) ==
    /\ active' = active \ {c}
    /\ nrets' = [nrets EXCEPT ![c] = @ + 1]
    /\ Goto(Advance(pc))
    /\ UNCHANGED <<ncalls, raised>>

\* Exception e leaves `from` (a call, or "eval" for the statement's own
\* name and key lookups).
Throw(from, e) ==
    /\ active' = active \ {from}
    /\ raised' = IF raised = <<>> THEN <<[call |-> from, error |-> e]>> ELSE raised
    /\ Goto(Propagate(pc, e))
    /\ UNCHANGED <<ncalls, nrets>>

NewId == Cardinality(DOMAIN heap) + 1

Current == heap[eopatch[1]]

-----------------------------------------------------------------------------
(* Line 2: eopatch = EOPatch.load('../data/sentinel1_sample', lazy_loading=True) *)

\* How a load may fail: the path is missing, what it holds is no container,
\* or reading it fails.
LoadErrors(s) ==
    CASE s.state = "missing" -> {"FileNotFoundError"}
      [] s.state = "malformed" -> {"ValueError"}
      [] OTHER -> {"OSError"}

LoadCall ==
    /\ CanStart("load")
    /\ Start("load")
    /\ UNCHANGED <<disk, heap, eopatch, reactiv, reads, writes, plotArg,
                   loaded, produced, disk0>>

\* The stored container becomes a new in-memory object, bound to eopatch.
\* (lazy_loading defers reading a layer to its first use; a layer read
\* later has the stored contents, so the object is given them here.)
LoadReturn ==
    /\ "load" \in active
    /\ Loadable(disk[SamplePath])
    /\ LET c == disk[SamplePath].layers
           id == NewId
       IN /\ heap' = heap @@ (id :> c)
          /\ eopatch' = <<id>>
          /\ loaded' = <<c>>
          /\ disk' = Persist("load", disk, c)
    /\ Finish("load")
    /\ UNCHANGED <<reactiv, reads, writes, plotArg, produced, disk0>>

LoadRaise ==
    /\ "load" \in active
    /\ \E e \in LoadErrors(disk[SamplePath]) : Throw("load", e)
    /\ UNCHANGED <<disk, heap, eopatch, reactiv, reads, writes, plotArg,
                   loaded, produced, disk0>>

-----------------------------------------------------------------------------
(* Lines 5-7: reactiv = ReactivTask(output, data_feature=..., mask_feature=...) *)

ConstructErrors == {"TypeError"}

ConstructCall ==
    /\ CanStart("construct")
    /\ Start("construct")
    /\ UNCHANGED <<disk, heap, eopatch, reactiv, reads, writes, plotArg,
                   loaded, produced, disk0>>

\* The task is a configuration value naming the three features.
ConstructReturn ==
    /\ "construct" \in active
    /\ reactiv' = <<TaskArgs>>
    /\ disk' = Persist("construct", disk,
                       IF eopatch = <<>> THEN NoLayers ELSE Current)
    /\ Finish("construct")
    /\ UNCHANGED <<heap, eopatch, reads, writes, plotArg, loaded, produced,
                   disk0>>

ConstructRaise ==
    /\ "construct" \in active
    /\ \E e \in ConstructErrors : Throw("construct", e)
    /\ UNCHANGED <<disk, heap, eopatch, reactiv, reads, writes, plotArg,
                   loaded, produced, disk0>>

-----------------------------------------------------------------------------
(* Line 10: eopatch = reactiv.execute(eopatch) *)

\* How execute may fail on a container holding layers c: an input layer is
\* missing, or the computation fails.
ExecuteErrors(task, c) ==
    IF TaskReads(task) \subseteq DOMAIN c
    THEN {"RuntimeError"}
    ELSE {"KeyError"}

\* The names reactiv and eopatch are looked up, then the call starts.
ExecuteCall ==
    /\ CanStart("execute")
    /\ IF reactiv = <<>> \/ eopatch = <<>>
       THEN Throw("eval", "NameError")
       ELSE Start("execute")
    /\ UNCHANGED <<disk, heap, eopatch, reactiv, reads, writes, plotArg,
                   loaded, produced, disk0>>

\* The task reads its two input layers and writes its output layer, either
\* into the container it was given or into a copy, and returns that
\* container; the script binds eopatch to what is returned.
ExecuteReturn ==
    /\ "execute" \in active
    /\ LET task == reactiv[1]
           arg == eopatch[1]
           c == heap[arg]
       IN /\ TaskReads(task) \subseteq DOMAIN c
          /\ \E v \in Layers, inPlace \in BOOLEAN :
                LET ret == IF inPlace THEN arg ELSE NewId
                    out == TaskOutput(task, c, v)
                IN /\ heap' = IF inPlace
                              THEN [heap EXCEPT ![arg] = out]
                              ELSE heap @@ (ret :> out)
                   /\ eopatch' = Rebind(eopatch, ret)
                   /\ produced' = <<[obj |-> ret, layer |-> v]>>
                   /\ disk' = Persist("execute", disk, out)
          /\ reads' = reads \cup TaskReads(task)
          /\ writes' = writes \cup TaskWrites(task)
    /\ Finish("execute")
    /\ UNCHANGED <<reactiv, plotArg, loaded, disk0>>

ExecuteRaise ==
    /\ "execute" \in active
    /\ \E e \in ExecuteErrors(reactiv[1], Current) : Throw("execute", e)
    /\ UNCHANGED <<disk, heap, eopatch, reactiv, reads, writes, plotArg,
                   loaded, produced, disk0>>

-----------------------------------------------------------------------------
(* Line 13: plot_results(eopatch[(FeatureType.DATA_TIMELESS, 'speckle_variability')]) *)

PlotErrors == {"RuntimeError"}

\* The argument eopatch[PlotKey] is evaluated first; the call starts with
\* the layer found.
PlotCall ==
    /\ CanStart("plot")
    /\ IF eopatch = <<>>
       THEN Throw("eval", "NameError") /\ UNCHANGED plotArg
       ELSE IF PlotKey \notin DOMAIN Current
            THEN Throw("eval", "KeyError") /\ UNCHANGED plotArg
            ELSE Start("plot") /\ plotArg' = <<Current[PlotKey]>>
    /\ UNCHANGED <<disk, heap, eopatch, reactiv, reads, writes, loaded,
                   produced, disk0>>

PlotReturn ==
    /\ "plot" \in active
    /\ disk' = Persist("plot", disk,
                       IF eopatch = <<>> THEN NoLayers ELSE Current)
    /\ Finish("plot")
    /\ UNCHANGED <<heap, eopatch, reactiv, reads, writes, plotArg, loaded,
                   produced, disk0>>

PlotRaise ==
    /\ "plot" \in active
    /\ \E e \in PlotErrors : Throw("plot", e)
    /\ UNCHANGED <<disk, heap, eopatch, reactiv, reads, writes, plotArg,
                   loaded, produced, disk0>>

-----------------------------------------------------------------------------
(* Specifications *)

Next ==
    \/ LoadCall \/ LoadReturn \/ LoadRaise
    \/ ConstructCall \/ ConstructReturn \/ ConstructRaise
    \/ ExecuteCall \/ ExecuteReturn \/ ExecuteRaise
    \/ PlotCall \/ PlotReturn \/ PlotRaise

Spec == Init /\ [][Next]_vars

\* Every external call eventually returns or raises, and the interpreter
\* goes on to the next statement.
FairSpec == Spec /\ WF_vars(Next)

-----------------------------------------------------------------------------
(* Properties *)

\* The order of the four external calls.
Order == <<"load", "construct", "execute", "plot">>

Started(c) == ncalls[c] > 0
Returned(c) == nrets[c] > 0
Terminated == status \in {"done", "failed"} /\ active = {}

\* C1: the external calls are made in the fixed order load, construct,
\* execute, plot; each is started at most once; a later call is started
\* only after every earlier one has returned; and at most one call is in
\* progress at any time.
C1_FixedOrder ==
    /\ \A c \in Calls : ncalls[c] <= 1 /\ nrets[c] <= ncalls[c]
    /\ Cardinality(active) <= 1
    /\ \A c \in active : Started(c) /\ ~Returned(c)
    /\ \A i, j \in 1..Len(Order) :
          (i < j /\ Started(Order[j])) =>
              (Returned(Order[i]) /\ Order[i] \notin active)

\* The plot call is in progress, every call has been started once and the
\* three before it have returned.
C1_Witness ==
    /\ active = {"plot"}
    /\ \A c \in Calls : ncalls[c] = 1
    /\ \A c \in Calls \ {"plot"} : nrets[c] = 1

C3_FailureEndsRun ==
    /\ raised # <<>> =>
          /\ status = "failed"
          /\ err = <<raised[1].error>>
          /\ active = {}
          /\ raised[1].call \in Calls
          /\ ncalls[raised[1].call] = 1
          /\ ~Returned(raised[1].call)
          /\ \A i, j \in 1..Len(Order) :
                (i < j /\ Order[i] = raised[1].call) => ~Started(Order[j])
          /\ raised[1].call \in {"load", "execute"} => ~Started("plot")
    /\ status = "failed" => raised # <<>>
    /\ Returned("load") => disk0[SamplePath].state = "ok"
    /\ Returned("execute") => {DataKey, MaskKey} \subseteq DOMAIN loaded[1]

\* execute has failed with a KeyError on a container lacking an input key,
\* and the run has ended without a plot call.
C3_Witness ==
    /\ raised = <<[call |-> "execute", error |-> "KeyError"]>>
    /\ ~({DataKey, MaskKey} \subseteq DOMAIN loaded[1])
    /\ status = "failed"
    /\ ~Started("plot")

\* C4: what is stored under the sample path never changes during a run,
\* successful or failed: it stays what it was before the load, which is
\* what the load returned, so a layer the task adds is in memory only.
C4_NeverPersisted ==
    /\ disk = disk0
    /\ loaded # <<>> => disk[SamplePath] = [state |-> "ok", layers |-> loaded[1]]

\* A successful run on a sample without the output key: the key is in the
\* in-memory container and not in the stored one.
C4_Witness ==
    /\ status = "done"
    /\ OutKey \in DOMAIN Current
    /\ OutKey \notin DOMAIN disk[SamplePath].layers

\* C5: the key plotted is the key the task was constructed to write, and
\* whenever execute has returned the container bound to eopatch holds that
\* key, so the lookup of the plot argument never fails.
C5_PlotKeyPresent ==
    /\ reactiv # <<>> => reactiv[1].output = PlotKey
    /\ Returned("execute") => PlotKey \in DOMAIN Current
    /\ raised # <<>> => raised[1].call # "eval"

\* The plot call was started on a sample that did not hold the plotted key.
C5_Witness ==
    /\ Started("plot")
    /\ PlotKey \notin DOMAIN loaded[1]
    /\ PlotKey \in DOMAIN Current

\* C6: once execute has returned, eopatch names the container execute
\* returned, and the layer handed to plot_results is the layer execute
\* wrote into that container, also when that container is another object
\* than the loaded one.
C6_PlotReadsReturned ==
    /\ Returned("execute") => eopatch = <<produced[1].obj>>
    /\ plotArg # <<>> =>
          /\ Returned("execute")
          /\ plotArg = <<produced[1].layer>>
          /\ plotArg = <<heap[produced[1].obj][PlotKey]>>

\* execute returned a second object, the loaded object holds a different
\* layer under the plotted key, and the plot call got the new layer.
C6_Witness ==
    /\ plotArg # <<>>
    /\ Cardinality(DOMAIN heap) = 2
    /\ \E id \in DOMAIN heap :
          /\ id # produced[1].obj
          /\ PlotKey \in DOMAIN heap[id]
          /\ heap[id][PlotKey] # plotArg[1]

\* C7: if every call returns or raises, every run terminates; a run that
\* is done has had its plot call return and no exception; a run that
\* failed ended at a call that raised; and a run that is neither is never
\* without a next step.
C7_Terminates ==
    /\ <>Terminated
    /\ [](status = "done" => (nrets["plot"] = 1 /\ raised = <<>>))
    /\ [](status = "failed" => (raised # <<>> /\ raised[1].call \in Calls))
    /\ [](~Terminated => ENABLED Next)

\* A run that ended after the plot call returned.
C7_Witness ==
    /\ Terminated
    /\ status = "done"
    /\ nrets["plot"] = 1

====
